---------------------------- MODULE Spec2Model ----------------------------
(***************************************************************************)
(* knGraph: a Python repository is parsed file by file with the ast module *)
(* (parser.py) into a RepositoryData aggregate (models.py), which is then  *)
(* written to a Neo4j property graph with Cypher MERGE statements          *)
(* (ingester.py), driven by ingest_repo (main.py).                         *)
(*                                                                         *)
(* Strings are sequences of one-character strings, so that formatting      *)
(* ("{file}::{name}", "{receiver}.{attr}"), splitting and joining are      *)
(* computed and not assumed.  None is the empty sequence wherever the code *)
(* only tests truthiness.                                                  *)
(***************************************************************************)
EXTENDS Naturals, Sequences, FiniteSets

(***************************************************************************)
(* Bounds of the model.                                                    *)
(***************************************************************************)
\* deepest nesting of declarations in the trees given to the call visitor
MaxNest == 3
\* deepest nesting of the call expressions given to the call visitor
MaxExprDepth == 3
\* most files a modelled repository holds
MaxFiles == 2
\* runs of the pipeline against the same store
MaxRuns == 2
\* nesting levels NodeVisitor's recursion can descend before the interpreter
\* raises RecursionError (sys.getrecursionlimit(), scaled to the model's trees)
RecursionLimit == 12

(***************************************************************************)
(* Strings.                                                                *)
(***************************************************************************)
None == << >>
DOT == "."
SEP == "/"

a_py == <<"a", ".", "p", "y">>
b_py == <<"b", ".", "p", "y">>
pq_py == <<"p", "/", "q", ".", "p", "y">>
foo == <<"f", "o", "o">>
bar == <<"b", "a", "r">>
dup == <<"d", "u", "p">>
nm_g == <<"g">>
nm_h == <<"h">>
nm_C == <<"C">>
nm_x == <<"x">>
nm_y == <<"y">>
nm_m == <<"m">>
mod_a == <<"a">>
mod_o == <<"o">>
mod_pq == <<"p", ".", "q">>
sym_r == <<"r">>

RECURSIVE Split(_, _)
\* str.split(sep): the maximal pieces of s between occurrences of sep
Split(s, sep) ==
    IF \A i \in 1..Len(s) : s[i] # sep
    THEN <<s>>
    ELSE LET k == CHOOSE i \in 1..Len(s) :
                      s[i] = sep /\ \A j \in 1..(i - 1) : s[j] # sep
         IN  <<SubSeq(s, 1, k - 1)>> \o Split(SubSeq(s, k + 1, Len(s)), sep)

RECURSIVE PathJoin(_)
\* os.path.join(*parts) for relative parts
PathJoin(parts) ==
    IF Len(parts) = 1 THEN parts[1]
    ELSE parts[1] \o <<SEP>> \o PathJoin(Tail(parts))

\* f"{file_path}::{node.name}"
FuncId(file_path, name) == file_path \o <<":", ":">> \o name

(***************************************************************************)
(* Syntax trees.  Every node is a record of one shape; c1, c2, c3 are the  *)
(* node's child lists in the order of the ast class's _fields, which is    *)
(* the order generic_visit and iter_child_nodes follow:                    *)
(*   Module           c2 = body                                            *)
(*   FunctionDef      c1 = args (default expressions), c2 = body,          *)
(*   AsyncFunctionDef c3 = decorator_list                                  *)
(*   ClassDef         c1 = bases, c2 = body, c3 = decorator_list           *)
(*   Call             c1 = <<func>>, c2 = args                             *)
(*   Attribute        c1 = <<value>>, name = attr                          *)
(*   Subscript        c1 = <<value>>, c2 = <<slice>>                       *)
(*   Name             name = id                                            *)
(*   Import           names = the aliases' dotted module names             *)
(*   ImportFrom       name = module (None for "from . import"), names      *)
(*   SyntaxError      a file ast.parse (or open) raises on: no tree        *)
(***************************************************************************)
Node(kind, name, lineno, names, c1, c2, c3) ==
    [kind |-> kind, name |-> name, lineno |-> lineno, names |-> names,
     c1 |-> c1, c2 |-> c2, c3 |-> c3]

Module(body) == Node("Module", None, 0, << >>, << >>, body, << >>)
FunctionDef(name, lineno, defaults, body, decorators) ==
    Node("FunctionDef", name, lineno, << >>, defaults, body, decorators)
AsyncFunctionDef(name, lineno, defaults, body, decorators) ==
    Node("AsyncFunctionDef", name, lineno, << >>, defaults, body, decorators)
ClassDef(name, lineno, body) ==
    Node("ClassDef", name, lineno, << >>, << >>, body, << >>)
Call(func, args) == Node("Call", None, 0, << >>, <<func>>, args, << >>)
Attribute(value, attr) == Node("Attribute", attr, 0, << >>, <<value>>, << >>, << >>)
Name(id) == Node("Name", id, 0, << >>, << >>, << >>, << >>)
Constant == Node("Constant", None, 0, << >>, << >>, << >>, << >>)
Subscript(value) == Node("Subscript", None, 0, << >>, <<value>>, <<Constant>>, << >>)
Pass == Node("Pass", None, 0, << >>, << >>, << >>, << >>)
Import(names) == Node("Import", None, 0, names, << >>, << >>, << >>)
ImportFrom(module, names) == Node("ImportFrom", module, 0, names, << >>, << >>, << >>)
Unparseable == Node("SyntaxError", None, 0, << >>, << >>, << >>, << >>)

FunctionKinds == {"FunctionDef", "AsyncFunctionDef"}

\* ast.iter_child_nodes
Children(node) == node.c1 \o node.c2 \o node.c3

RECURSIVE Walk(_)
\* ast.walk: breadth first, from a queue holding the nodes still to yield
Walk(todo) ==
    IF todo = << >> THEN << >>
    ELSE <<Head(todo)>> \o Walk(Tail(todo) \o Children(Head(todo)))

RECURSIVE Depth(_)
\* the nesting levels of a tree: the Python frames NodeVisitor stacks on it
Depth(node) ==
    LET kids == Children(node)
        RECURSIVE MaxOf(_)
        MaxOf(i) == IF i > Len(kids) THEN 0
                    ELSE LET here == Depth(kids[i])
                             rest == MaxOf(i + 1)
                         IN  IF here > rest THEN here ELSE rest
    IN  1 + MaxOf(1)


(***************************************************************************)
(* models.py: the entities of the aggregate.                               *)
(***************************************************************************)
FileNode(path, relative_path) == [path |-> path, relative_path |-> relative_path]
FunctionNode(id, name, file_path, line_number) ==
    [id |-> id, name |-> name, file_path |-> file_path, line_number |-> line_number]
ClassNode(id, name, file_path, line_number) ==
    [id |-> id, name |-> name, file_path |-> file_path, line_number |-> line_number]
ImportRelation(from_file, to_file, import_name) ==
    [from_file |-> from_file, to_file |-> to_file, import_name |-> import_name]
CallRelation(from_function, to_function) ==
    [from_function |-> from_function, to_function |-> to_function]
\* RepositoryData([], [], [], [], [], {})
RepositoryData ==
    [files |-> << >>, functions |-> << >>, classes |-> << >>,
     imports |-> << >>, calls |-> << >>, function_map |-> << >>]

\* dict assignment m[k] = v; a dict is a function on its keys
DictSet(m, k, v) == [x \in DOMAIN m \cup {k} |-> IF x = k THEN v ELSE m[x]]

(***************************************************************************)
(* parser.py: parse_imports.                                               *)
(***************************************************************************)
\* os.path.join(*name.split('.')) + '.py'
potential_path(dotted) == PathJoin(Split(dotted, DOT)) \o <<".", "p", "y">>

RECURSIVE ImportsOfNames(_, _, _)
\* the inner loops over node.names
ImportsOfNames(node, file_path, i) ==
    IF i > Len(node.names) THEN << >>
    ELSE LET alias == node.names[i]
             rel == IF node.kind = "Import"
                    THEN ImportRelation(file_path, potential_path(alias), alias)
                    ELSE ImportRelation(file_path, potential_path(node.name),
                                        node.name \o <<DOT>> \o alias)
         IN  <<rel>> \o ImportsOfNames(node, file_path, i + 1)

RECURSIVE ImportsOfNodes(_, _)
ImportsOfNodes(nodes, file_path) ==
    IF nodes = << >> THEN << >>
    ELSE LET node == Head(nodes)
             here == IF node.kind = "Import" \/ (node.kind = "ImportFrom" /\ node.name # None)
                     THEN ImportsOfNames(node, file_path, 1)
                     ELSE << >>
         IN  here \o ImportsOfNodes(Tail(nodes), file_path)

parse_imports(tree, file_path) == ImportsOfNodes(Walk(<<tree>>), file_path)

(***************************************************************************)
(* parser.py: parse_function_calls and its CallVisitor.  The visitor's     *)
(* state st is its two attributes, current_function and calls, and sites:  *)
(* for each appended CallRelation the place (the path of child indices     *)
(* from the root) of the Call node it was appended for.  sites is a        *)
(* history variable: the code does not keep it, and nothing reads it but   *)
(* the properties.                                                         *)
(***************************************************************************)
\* CallVisitor.__init__
CallVisitorInit == [current_function |-> None, calls |-> << >>, sites |-> << >>]

\* variant, for comparison: an attribute gives its name alone, whatever it is
\* an attribute of
call_name_attr_only(func) ==
    IF func.kind = "Name" THEN func.name
    ELSE IF func.kind = "Attribute" THEN func.name
    ELSE None
\* the candidate name of a call target, None when the shape gives none
call_name(func) ==
    IF func.kind = "Name" THEN func.name
    ELSE IF func.kind = "Attribute"
         THEN IF func.c1[1].kind = "Name"
              THEN func.c1[1].name \o <<DOT>> \o func.name
              ELSE func.name
         ELSE None

RECURSIVE visit(_, _, _, _), generic_visit(_, _, _, _), VisitEach(_, _, _, _, _)

\* variant, for comparison: current_function is not restored on exit
visit_FunctionDef_no_restore(node, path, file_path, st) ==
    generic_visit(node, path, file_path,
                  [st EXCEPT !.current_function = FuncId(file_path, node.name)])
visit_FunctionDef(node, path, file_path, st) ==
    LET old_func == st.current_function
        after == generic_visit(node, path, file_path,
                     [st EXCEPT !.current_function = FuncId(file_path, node.name)])
    IN  [after EXCEPT !.current_function = old_func]

\* visit_AsyncFunctionDef has the body of visit_FunctionDef
visit_AsyncFunctionDef(node, path, file_path, st) ==
    LET old_func == st.current_function
        after == generic_visit(node, path, file_path,
                     [st EXCEPT !.current_function = FuncId(file_path, node.name)])
    IN  [after EXCEPT !.current_function = old_func]

\* variant, for comparison: the test of current_function is missing
visit_Call_unguarded(node, path, file_path, st) ==
    LET cn == call_name(node.c1[1])
        st1 == IF cn # None
               THEN [st EXCEPT !.calls = Append(@, CallRelation(st.current_function, cn)),
                               !.sites = Append(@, path)]
               ELSE st
    IN  generic_visit(node, path, file_path, st1)
visit_Call(node, path, file_path, st) ==
    LET cn == IF st.current_function # None THEN call_name(node.c1[1]) ELSE None
        st1 == IF st.current_function # None /\ cn # None
               THEN [st EXCEPT !.calls = Append(@, CallRelation(st.current_function, cn)),
                               !.sites = Append(@, path)]
               ELSE st
    IN  generic_visit(node, path, file_path, st1)

\* NodeVisitor.visit: dispatch on the node's class
visit(node, path, file_path, st) ==
    IF node.kind = "FunctionDef" THEN visit_FunctionDef(node, path, file_path, st)
    ELSE IF node.kind = "AsyncFunctionDef" THEN visit_AsyncFunctionDef(node, path, file_path, st)
    ELSE IF node.kind = "Call" THEN visit_Call(node, path, file_path, st)
    ELSE generic_visit(node, path, file_path, st)

VisitEach(kids, i, path, file_path, st) ==
    IF i > Len(kids) THEN st
    ELSE VisitEach(kids, i + 1, path, file_path,
                   visit(kids[i], Append(path, i), file_path, st))

\* NodeVisitor.generic_visit: every child node, field by field
generic_visit(node, path, file_path, st) ==
    VisitEach(Children(node), 1, path, file_path, st)

\* visitor.visit(tree) raises RecursionError on a tree nested deeper than the
\* interpreter's stack allows; otherwise visitor.calls is returned
parse_function_calls(tree, file_path) ==
    IF Depth(tree) > RecursionLimit
    THEN [raised |-> TRUE, calls |-> << >>, sites |-> << >>]
    ELSE LET st == visit(tree, << >>, file_path, CallVisitorInit)
         IN  [raised |-> FALSE, calls |-> st.calls, sites |-> st.sites]

(***************************************************************************)
(* parser.py: extract_functions_and_classes.  self.data.function_map is    *)
(* written while the tree is walked, before the caller extends the lists.  *)
(***************************************************************************)
RECURSIVE ExtractFrom(_, _, _)
ExtractFrom(nodes, file_path, acc) ==
    IF nodes = << >> THEN acc
    ELSE LET node == Head(nodes)
             id == FuncId(file_path, node.name)
             acc1 == IF node.kind \in FunctionKinds
                     THEN [acc EXCEPT
                             !.functions = Append(@, FunctionNode(id, node.name, file_path, node.lineno)),
                             !.function_map = DictSet(@, node.name, id)]
                     ELSE IF node.kind = "ClassDef"
                     THEN [acc EXCEPT
                             !.classes = Append(@, ClassNode(id, node.name, file_path, node.lineno))]
                     ELSE acc
         IN  ExtractFrom(Tail(nodes), file_path, acc1)

\* variant, for comparison: only the declarations at the top level of the
\* module are collected
extract_top_level_only(tree, file_path, function_map) ==
    ExtractFrom(tree.c2, file_path,
                [functions |-> << >>, classes |-> << >>, function_map |-> function_map])
\* variant, for comparison: an earlier entry of function_map is kept
extract_first_write_wins(tree, file_path, function_map) ==
    LET r == ExtractFrom(Walk(<<tree>>), file_path,
                [functions |-> << >>, classes |-> << >>, function_map |-> function_map])
    IN  [r EXCEPT !.function_map =
            [n \in DOMAIN r.function_map |->
                IF n \in DOMAIN function_map THEN function_map[n] ELSE r.function_map[n]]]
extract_functions_and_classes(tree, file_path, function_map) ==
    ExtractFrom(Walk(<<tree>>), file_path,
                [functions |-> << >>, classes |-> << >>, function_map |-> function_map])

(***************************************************************************)
(* parser.py: parse_file.  The result is the aggregate after the call, the *)
(* returned bool and the sites of the calls added.                         *)
(***************************************************************************)
\* get_relative_path's result is the file's path below the root; the absolute
\* path is the root followed by it
AbsPath(relative_path) == <<SEP, "r", SEP>> \o relative_path

parse_file(d, file) ==
    IF file.source.kind = "SyntaxError"
    THEN [data |-> d, ok |-> FALSE, sites |-> << >>]
    ELSE LET tree == file.source
             rel == file.relative_path
             d1 == [d EXCEPT !.files = Append(@, FileNode(AbsPath(rel), rel))]
             d2 == [d1 EXCEPT !.imports = @ \o parse_imports(tree, rel)]
             ex == extract_functions_and_classes(tree, rel, d2.function_map)
             d3 == [d2 EXCEPT !.functions = @ \o ex.functions,
                              !.classes = @ \o ex.classes,
                              !.function_map = ex.function_map]
             pc_ == parse_function_calls(tree, rel)
         IN  IF pc_.raised
             THEN [data |-> d3, ok |-> FALSE, sites |-> << >>]
             ELSE [data |-> [d3 EXCEPT !.calls = @ \o pc_.calls],
                   ok |-> TRUE, sites |-> pc_.sites]

(***************************************************************************)
(* The inputs: syntax trees and repositories.                              *)
(***************************************************************************)
\* x()
SimpleCall == Call(Name(nm_x), << >>)
\* y(), as a decorator or a default-argument expression
ExtraCall == Call(Name(nm_y), << >>)

DeclHeads == {<<"FunctionDef", nm_g>>, <<"AsyncFunctionDef", nm_h>>, <<"ClassDef", nm_C>>}
NoExtras == [defaults |-> << >>, decorators |-> << >>]
ExtraChoices ==
    {NoExtras,
     [defaults |-> <<ExtraCall>>, decorators |-> << >>],
     [defaults |-> << >>, decorators |-> <<ExtraCall>>]}

\* a declaration among calls: before it, after it, or both
Layouts(decl) ==
    {<<SimpleCall, decl>>, <<decl, SimpleCall>>, <<SimpleCall, decl, SimpleCall>>}

RECURSIVE Bodies(_)
\* statement lists with declarations nested at most d deep; the innermost
\* declaration of a list may carry a decorator or a default expression
Bodies(d) ==
    IF d = 0 THEN {<<SimpleCall>>}
    ELSE LET inner == Bodies(d - 1)
             decls ==
                 {Node(h[1], h[2], d, << >>, x.defaults, b, x.decorators) :
                     h \in DeclHeads, b \in inner \ {<<SimpleCall>>}, x \in {NoExtras}}
                 \cup
                 {Node(h[1], h[2], d, << >>, x.defaults, <<SimpleCall>>, x.decorators) :
                     h \in DeclHeads \ {<<"ClassDef", nm_C>>}, x \in ExtraChoices}
                 \cup
                 {ClassDef(nm_C, d, <<SimpleCall>>)}
         IN  {<<SimpleCall>>} \cup UNION {Layouts(decl) : decl \in decls}

\* the argument lists of the call expressions: none, or one nested call
ArgLists == {<< >>, <<Call(Name(nm_y), << >>)>>}

RECURSIVE Exprs(_)
\* expressions nested at most d deep over the name x
Exprs(d) ==
    IF d = 0 THEN {Name(nm_x), Constant}
    ELSE LET sub == Exprs(d - 1)
         IN  sub \cup {Attribute(e, nm_m) : e \in sub}
                 \cup {Subscript(e) : e \in sub}
                 \cup {Call(e, a) : e \in sub, a \in ArgLists}

\* the trees the call visitor is checked on: nested declarations around simple
\* calls, and every expression as a statement at module level and inside g
VisitorTrees ==
    {Module(b) : b \in Bodies(MaxNest)}
    \cup {Module(<<e>>) : e \in Exprs(MaxExprDepth)}
    \cup {Module(<<FunctionDef(nm_g, 1, << >>, <<e>>, << >>)>>) : e \in Exprs(MaxExprDepth)}

SourceFile(relative_path, source) == [relative_path |-> relative_path, source |-> source]

(***************************************************************************)
(* The state.                                                              *)
(***************************************************************************)
VARIABLES
    repo,           \* find_python_files(): the discovered files, in discovery order
    run,            \* which run of ingest_repo this is
    pc,             \* where the run is
    idx,            \* parse_repository's position in python_files
    success_count,  \* parse_repository's success_count
    returned,       \* history: what parse_file returned for each file so far
    data,           \* RepositoryParser.data, the aggregate
    sites,          \* history: for each element of data.calls, the file and the
                    \* place in its tree of the Call node it was recorded for
    store,          \* the graph store: nodes, relationships, constraints in force
    exit_code,      \* the exit code of each finished run
    totals          \* history: the store's counts at the end of each run

vars == <<repo, run, pc, idx, success_count, returned, data, sites, store, exit_code, totals>>

\* an empty store; cap is whether the server accepts the CREATE CONSTRAINT syntax
EmptyStore(cap) ==
    [nodes |-> {}, edges |-> {}, next |-> 1, cap |-> cap, constraints |-> FALSE]

\* RepositoryParser.__init__ and the first lines of parse_repository
InitWith(files, cap) ==
    /\ repo = files
    /\ run = 1
    /\ pc = "parse"
    /\ idx = 1
    /\ success_count = 0
    /\ returned = << >>
    /\ data = RepositoryData
    /\ sites = << >>
    /\ store = EmptyStore(cap)
    /\ exit_code = << >>
    /\ totals = << >>

RECURSIVE TagSites(_, _)
TagSites(paths, i) ==
    IF paths = << >> THEN << >>
    ELSE <<[file |-> i, path |-> Head(paths)]>> \o TagSites(Tail(paths), i)

\* one iteration of parse_repository's loop
ParseFile ==
    /\ pc = "parse"
    /\ idx <= Len(repo)
    /\ LET r == parse_file(data, repo[idx])
       IN  /\ data' = r.data
           /\ success_count' = IF r.ok THEN success_count + 1 ELSE success_count
           /\ returned' = Append(returned, r.ok)
           /\ sites' = sites \o TagSites(r.sites, idx)
    /\ idx' = idx + 1
    /\ UNCHANGED <<repo, run, pc, store, exit_code, totals>>

\* the loop is over: the summary is printed and self.data returned
ParseRepositoryReturn ==
    /\ pc = "parse"
    /\ idx > Len(repo)
    /\ pc' = "parsed"
    /\ UNCHANGED <<repo, run, idx, success_count, returned, data, sites, store, exit_code, totals>>

NextParse == ParseFile \/ ParseRepositoryReturn

\* parse_repository on a repository of one file drawn from VisitorTrees
InitVisitor == \E t \in VisitorTrees : InitWith(<<SourceFile(a_py, t)>>, TRUE)
SpecVisitor == InitVisitor /\ [][NextParse]_vars

(***************************************************************************)
(* ingester.py: the graph store and the Cypher statements run against it.  *)
(* A node has an identity (nid), a label and properties; the properties a  *)
(* label does not use are None (0 for line_number).  A relationship is     *)
(* only ever made by MERGE, so the relationships are a set.                *)
(***************************************************************************)
NoProps == [path |-> None, relative_path |-> None, id |-> None, name |-> None,
            line_number |-> 0]

\* the property a label's uniqueness constraint is on (create_constraints)
ConstraintKey(label) == IF label = "File" THEN "path" ELSE "id"

\* variant, for comparison: a pattern never finds a node
Match_nothing(st, label, props) == {}
\* MATCH (n:label {props}); label "Any" is the bare MATCH (n)
Match(st, label, props) ==
    {n \in st.nodes :
        /\ label = "Any" \/ n.label = label
        /\ \A k \in DOMAIN props : n[k] = props[k]}

\* MERGE (n:label {props}): an existing node matching the whole pattern, or a new
\* node; making the node fails when a uniqueness constraint in force forbids it
MergeNode(st, label, props) ==
    IF Match(st, label, props) # {} THEN [store |-> st, err |-> FALSE]
    ELSE IF st.constraints /\
            \E n \in st.nodes : n.label = label /\
                                n[ConstraintKey(label)] = props[ConstraintKey(label)]
    THEN [store |-> st, err |-> TRUE]
    ELSE LET node == [k \in {"nid", "label"} \cup DOMAIN NoProps |->
                         IF k = "nid" THEN st.next
                         ELSE IF k = "label" THEN label
                         ELSE IF k \in DOMAIN props THEN props[k]
                         ELSE NoProps[k]]
         IN  [store |-> [st EXCEPT !.nodes = @ \cup {node}, !.next = @ + 1],
              err |-> FALSE]

\* MATCH (a ...) MATCH (b ...) MERGE (a)-[:type {name}]->(b)
MergeEdges(st, type, from, to, name) ==
    [st EXCEPT !.edges = @ \cup
        {[type |-> type, src |-> a.nid, dst |-> b.nid, name |-> name] :
            a \in from, b \in to}]

\* test_connection: RETURN 1 answered, or an exception caught
ConnectionResults == BOOLEAN

\* create_constraints: the three constraints are in force afterwards unless the
\* server raised, which the method only prints
create_constraints(st) == [st EXCEPT !.constraints = st.cap]

\* clear_database: MATCH (n) DETACH DELETE n when there is a node
clear_database(st) ==
    LET all == Match(st, "Any", << >>)
        gone == {n.nid : n \in all}
    IN  IF Cardinality(all) > 0
        THEN [st EXCEPT !.nodes = @ \ all,
                        !.edges = {e \in @ : e.src \notin gone /\ e.dst \notin gone}]
        ELSE st

RECURSIVE ingest_files(_, _)
ingest_files(st, files) ==
    IF files = << >> THEN [store |-> st, err |-> FALSE]
    ELSE LET file_node == Head(files)
             r == MergeNode(st, "File", [path |-> file_node.relative_path,
                                         relative_path |-> file_node.relative_path])
         IN  IF r.err THEN r ELSE ingest_files(r.store, Tail(files))

\* the two statements run for one function or class: the node, then DEFINES
IngestDeclared(st, label, decl) ==
    LET r == MergeNode(st, label, [id |-> decl.id, name |-> decl.name,
                                   line_number |-> decl.line_number])
    IN  IF r.err THEN r
        ELSE [store |-> MergeEdges(r.store, "DEFINES",
                                   Match(r.store, "File", [path |-> decl.file_path]),
                                   Match(r.store, label, [id |-> decl.id]), None),
              err |-> FALSE]

RECURSIVE ingest_functions(_, _)
ingest_functions(st, functions) ==
    IF functions = << >> THEN [store |-> st, err |-> FALSE]
    ELSE LET r == IngestDeclared(st, "Function", Head(functions))
         IN  IF r.err THEN r ELSE ingest_functions(r.store, Tail(functions))

RECURSIVE ingest_classes(_, _)
ingest_classes(st, classes) ==
    IF classes = << >> THEN [store |-> st, err |-> FALSE]
    ELSE LET r == IngestDeclared(st, "Class", Head(classes))
         IN  IF r.err THEN r ELSE ingest_classes(r.store, Tail(classes))

RECURSIVE ingest_imports_unconditional(_, _)
\* variant, for comparison: the relationship is made to a File node made for
\* the purpose when none is at to_file
ingest_imports_unconditional(st, imports) ==
    IF imports = << >> THEN st
    ELSE LET imp == Head(imports)
             r == MergeNode(st, "File", [path |-> imp.to_file, relative_path |-> imp.to_file])
             st1 == MergeEdges(r.store, "IMPORTS",
                               Match(r.store, "File", [path |-> imp.from_file]),
                               Match(r.store, "File", [path |-> imp.to_file]),
                               imp.import_name)
         IN  ingest_imports_unconditional(st1, Tail(imports))
RECURSIVE ingest_imports(_, _)
ingest_imports(st, imports) ==
    IF imports = << >> THEN st
    ELSE LET imp == Head(imports)
             st1 == MergeEdges(st, "IMPORTS",
                               Match(st, "File", [path |-> imp.from_file]),
                               Match(st, "File", [path |-> imp.to_file]),
                               imp.import_name)
         IN  ingest_imports(st1, Tail(imports))

RECURSIVE ingest_calls_by_name(_, _, _)
\* variant, for comparison: the called name is taken for the called id
ingest_calls_by_name(st, calls, function_map) ==
    IF calls = << >> THEN st
    ELSE LET call == Head(calls)
             st1 == MergeEdges(st, "CALLS",
                               Match(st, "Function", [id |-> call.from_function]),
                               Match(st, "Function", [name |-> call.to_function]),
                               None)
         IN  ingest_calls_by_name(st1, Tail(calls), function_map)
RECURSIVE ingest_calls_by_method(_, _, _)
\* variant, for comparison: "receiver.method" is looked up as "method"
ingest_calls_by_method(st, calls, function_map) ==
    IF calls = << >> THEN st
    ELSE LET call == Head(calls)
             parts == Split(call.to_function, DOT)
             method == parts[Len(parts)]
             to_function_id == IF method \in DOMAIN function_map
                               THEN function_map[method] ELSE None
             st1 == IF to_function_id # None
                    THEN MergeEdges(st, "CALLS",
                                    Match(st, "Function", [id |-> call.from_function]),
                                    Match(st, "Function", [id |-> to_function_id]),
                                    None)
                    ELSE st
         IN  ingest_calls_by_method(st1, Tail(calls), function_map)

RECURSIVE ingest_calls(_, _, _)
ingest_calls(st, calls, function_map) ==
    IF calls = << >> THEN st
    ELSE LET call == Head(calls)
             \* function_map.get(call.to_function)
             to_function_id == IF call.to_function \in DOMAIN function_map
                               THEN function_map[call.to_function] ELSE None
             st1 == IF to_function_id # None
                    THEN MergeEdges(st, "CALLS",
                                    Match(st, "Function", [id |-> call.from_function]),
                                    Match(st, "Function", [id |-> to_function_id]),
                                    None)
                    ELSE st
         IN  ingest_calls(st1, Tail(calls), function_map)

\* what a run leaves in the store, by label and relationship type
Counts(st) ==
    [File |-> Cardinality({n \in st.nodes : n.label = "File"}),
     Function |-> Cardinality({n \in st.nodes : n.label = "Function"}),
     Class |-> Cardinality({n \in st.nodes : n.label = "Class"}),
     DEFINES |-> Cardinality({e \in st.edges : e.type = "DEFINES"}),
     IMPORTS |-> Cardinality({e \in st.edges : e.type = "IMPORTS"}),
     CALLS |-> Cardinality({e \in st.edges : e.type = "CALLS"})]

(***************************************************************************)
(* main.py and ingest_repository_data: the steps of a run after parsing.   *)
(***************************************************************************)
\* the run ends: ingest_repo returns (0) or sys.exit(1)
EndRun(code, connected, st) ==
    /\ pc' = "exit"
    /\ exit_code' = Append(exit_code, code)
    /\ totals' = Append(totals, [connected |-> connected, counts |-> Counts(st)])

\* the next step of ingest_repository_data, or the exception leaving it
StepTo(next, r) ==
    /\ store' = r.store
    /\ IF r.err
       THEN EndRun(1, TRUE, r.store)
       ELSE pc' = next /\ UNCHANGED <<exit_code, totals>>

Unchanging == <<repo, run, idx, success_count, returned, data, sites>>

\* variant, for comparison: the store is cleared before the connection is tested
TestConnection_after_clear ==
    /\ pc = "parsed"
    /\ store' = clear_database(store)
    /\ \E ok \in ConnectionResults :
          IF ok THEN pc' = "clear_database" /\ UNCHANGED <<exit_code, totals>>
          ELSE EndRun(1, FALSE, store')
    /\ UNCHANGED Unchanging

\* ingest_repository_data starts: test_connection, and the raise when it fails
TestConnection ==
    /\ pc = "parsed"
    /\ \E ok \in ConnectionResults :
          IF ok THEN pc' = "clear_database" /\ UNCHANGED <<exit_code, totals>>
          ELSE EndRun(1, FALSE, store)
    /\ UNCHANGED <<store>>
    /\ UNCHANGED Unchanging

\* clear_existing is True in every call ingest_repo makes
ClearDatabase ==
    /\ pc = "clear_database"
    /\ StepTo("create_constraints", [store |-> clear_database(store), err |-> FALSE])
    /\ UNCHANGED Unchanging

CreateConstraints ==
    /\ pc = "create_constraints"
    /\ StepTo("ingest_files", [store |-> create_constraints(store), err |-> FALSE])
    /\ UNCHANGED Unchanging

IngestFiles ==
    /\ pc = "ingest_files"
    /\ StepTo("ingest_functions", ingest_files(store, data.files))
    /\ UNCHANGED Unchanging

IngestFunctions ==
    /\ pc = "ingest_functions"
    /\ StepTo("ingest_classes", ingest_functions(store, data.functions))
    /\ UNCHANGED Unchanging

IngestClasses ==
    /\ pc = "ingest_classes"
    /\ StepTo("ingest_imports", ingest_classes(store, data.classes))
    /\ UNCHANGED Unchanging

IngestImports ==
    /\ pc = "ingest_imports"
    /\ StepTo("ingest_calls", [store |-> ingest_imports(store, data.imports), err |-> FALSE])
    /\ UNCHANGED Unchanging

\* the last step; ingest_repo then returns
IngestCalls ==
    /\ pc = "ingest_calls"
    /\ LET st == ingest_calls(store, data.calls, data.function_map)
       IN  store' = st /\ EndRun(0, TRUE, st)
    /\ UNCHANGED Unchanging

\* ingest_repo is run again on the unchanged repository against the same store
RunAgain ==
    /\ pc = "exit"
    /\ run < MaxRuns
    /\ run' = run + 1
    /\ pc' = "parse"
    /\ idx' = 1
    /\ success_count' = 0
    /\ returned' = << >>
    /\ data' = RepositoryData
    /\ sites' = << >>
    /\ UNCHANGED <<repo, store, exit_code, totals>>

(***************************************************************************)
(* The repositories of the pipeline's specification.                       *)
(***************************************************************************)
RECURSIVE Chain(_)
\* x[0][0]...[0], n subscripts deep
Chain(n) == IF n = 0 THEN Name(nm_x) ELSE Subscript(Chain(n - 1))

\* import a, o / from p.q import r / from . import r
\* def bar(): foo(); x().foo(); self.dup(); zed()
Src_bar ==
    Module(<<Import(<<mod_a, mod_o>>),
             ImportFrom(mod_pq, <<sym_r>>),
             ImportFrom(None, <<sym_r>>),
             FunctionDef(bar, 4, << >>,
                 <<Call(Name(foo), << >>),
                   Call(Attribute(Call(Name(nm_x), << >>), foo), << >>),
                   Call(Attribute(Name(nm_x), dup), << >>),
                   Call(Name(nm_y), << >>)>>, << >>)>>)
\* def dup(): foo() / class C: def dup(self): def h(): bar()
Src_dup ==
    Module(<<FunctionDef(dup, 1, << >>, <<Call(Name(foo), << >>)>>, << >>),
             ClassDef(nm_C, 3,
                 <<FunctionDef(dup, 4, << >>,
                     <<FunctionDef(nm_h, 5, << >>, <<Call(Name(bar), << >>)>>, << >>)>>,
                     << >>)>>)>>)
\* import a / async def foo(): dup(); foo() / class C: pass
Src_foo_dup ==
    Module(<<Import(<<mod_a>>),
             AsyncFunctionDef(foo, 2, << >>,
                 <<Call(Name(dup), << >>), Call(Name(foo), << >>)>>, << >>),
             ClassDef(nm_C, 5, <<Pass>>)>>)
\* import a / def foo(): bar() / an expression nested deeper than the
\* interpreter's stack lets NodeVisitor descend
Src_deep ==
    Module(<<Import(<<mod_a>>),
             FunctionDef(foo, 2, << >>, <<Call(Name(bar), << >>)>>, << >>),
             Chain(RecursionLimit)>>)

Sources == {Src_bar, Src_dup, Src_foo_dup, Src_deep, Unparseable}
RelativePaths == {a_py, b_py, pq_py}
SourceFiles == {SourceFile(p, s) : p \in RelativePaths, s \in Sources}

RECURSIVE Repos(_)
\* the sequences of at most n files, no two at the same path
Repos(n) ==
    IF n = 0 THEN {<< >>}
    ELSE LET shorter == Repos(n - 1)
             longer == {Append(r, f) : r \in {q \in shorter : Len(q) = n - 1},
                                       f \in SourceFiles}
         IN  shorter \cup
             {q \in longer :
                 \A i \in 1..(n - 1) : q[i].relative_path # q[n].relative_path}

Init == \E files \in Repos(MaxFiles), cap \in BOOLEAN : InitWith(files, cap)

Next ==
    \/ ParseFile
    \/ ParseRepositoryReturn
    \/ TestConnection
    \/ ClearDatabase
    \/ CreateConstraints
    \/ IngestFiles
    \/ IngestFunctions
    \/ IngestClasses
    \/ IngestImports
    \/ IngestCalls
    \/ RunAgain

Spec == Init /\ [][Next]_vars

(***************************************************************************)
(* Places in a tree, for the properties: a place is the path of child      *)
(* indices leading from the root to a node.                                *)
(***************************************************************************)
RECURSIVE NodeAt(_, _)
NodeAt(node, path) ==
    IF path = << >> THEN node
    ELSE NodeAt(Children(node)[Head(path)], Tail(path))

RECURSIVE PlacesOf(_, _)
PlacesOf(node, prefix) ==
    {prefix} \cup UNION {PlacesOf(Children(node)[i], Append(prefix, i)) :
                            i \in 1..Len(Children(node))}

\* the places of the call expressions of a tree
CallPlaces(tree) == {p \in PlacesOf(tree, << >>) : NodeAt(tree, p).kind = "Call"}

\* the function declarations around place p, each as the length of its own place
DeclsAround(tree, p) ==
    {k \in 0..(Len(p) - 1) : NodeAt(tree, SubSeq(p, 1, k)).kind \in FunctionKinds}

\* the innermost of them
InnermostDecl(tree, p) ==
    CHOOSE k \in DeclsAround(tree, p) : \A j \in DeclsAround(tree, p) : j <= k

\* place p lies in the body (not the defaults, not the decorators) of the
\* declaration at its prefix of length k
InBodyOf(tree, p, k) ==
    LET decl == NodeAt(tree, SubSeq(p, 1, k))
    IN  p[k + 1] > Len(decl.c1) /\ p[k + 1] <= Len(decl.c1) + Len(decl.c2)

\* place p lies in the body of the innermost declaration around it
InABody(tree, p) ==
    DeclsAround(tree, p) # {} /\ InBodyOf(tree, p, InnermostDecl(tree, p))

TreeOf(i) == repo[sites[i].file].source
PathOfFile(i) == repo[sites[i].file].relative_path

\* the candidate name the shape of a call target gives, None when it gives none
ExpectedName(target) ==
    CASE target.kind = "Name" -> target.name
      [] target.kind = "Attribute" /\ target.c1[1].kind = "Name" ->
             target.c1[1].name \o <<".">> \o target.name
      [] target.kind = "Attribute" /\ target.c1[1].kind # "Name" -> target.name
      [] OTHER -> None

\* q is a proper prefix of p
ProperPrefix(q, p) == Len(q) < Len(p) /\ SubSeq(p, 1, Len(q)) = q

(***************************************************************************)
(* C1: every recorded call whose place is in the body of a function or     *)
(* async function declaration has as from_function the id "{file}::{name}" *)
(* of the innermost declaration around it, at any nesting depth and also   *)
(* after a nested declaration has ended.                                   *)
(***************************************************************************)
C1_InnermostDeclaration ==
    \A i \in 1..Len(data.calls) :
        InABody(TreeOf(i), sites[i].path) =>
            data.calls[i].from_function =
                FuncId(PathOfFile(i),
                       NodeAt(TreeOf(i),
                              SubSeq(sites[i].path, 1,
                                     InnermostDecl(TreeOf(i), sites[i].path))).name)

\* a call in a declaration nested in another was recorded, and after it a call
\* of the outer declaration's body, under a different id
C1_Witness ==
    \E i, j \in 1..Len(data.calls) :
        /\ i < j
        /\ sites[i].file = sites[j].file
        /\ InABody(TreeOf(i), sites[i].path)
        /\ InABody(TreeOf(j), sites[j].path)
        /\ Cardinality(DeclsAround(TreeOf(i), sites[i].path)) >= 2
        /\ DeclsAround(TreeOf(j), sites[j].path) # {}
        /\ InnermostDecl(TreeOf(j), sites[j].path) < InnermostDecl(TreeOf(i), sites[i].path)
        /\ SubSeq(sites[j].path, 1, InnermostDecl(TreeOf(j), sites[j].path))
             = SubSeq(sites[i].path, 1, InnermostDecl(TreeOf(j), sites[j].path))
        /\ data.calls[i].from_function # data.calls[j].from_function

(***************************************************************************)
(* C2: a call expression with no function declaration around it is never   *)
(* recorded, whatever declarations were entered and left before it.        *)
(***************************************************************************)
C2_ModuleLevelDropped ==
    \A i \in 1..Len(data.calls) : DeclsAround(TreeOf(i), sites[i].path) # {}

\* a file was parsed that has a call at module level after a function
\* declaration whose calls were recorded
C2_Witness ==
    /\ idx = 2 /\ success_count = 1
    /\ Len(data.calls) > 0
    /\ \E p \in CallPlaces(repo[1].source) :
          /\ Len(p) = 1 /\ p[1] > 1
          /\ NodeAt(repo[1].source, <<p[1] - 1>>).kind \in FunctionKinds

(***************************************************************************)
(* C3: in every parsed file, a call expression with a function declaration *)
(* around it is recorded exactly once when the shape of its target gives a *)
(* candidate name (a bare name: the identifier; an attribute of a bare     *)
(* name: "receiver.method"; an attribute of anything else: "method"), with *)
(* that name as to_function, and not at all when it gives none; calls      *)
(* nested in its target and arguments are recorded in their own right.     *)
(***************************************************************************)
C3_CandidateNames ==
    success_count = idx - 1 =>
        \A f \in 1..(idx - 1) :
            \A p \in CallPlaces(repo[f].source) :
                DeclsAround(repo[f].source, p) # {} =>
                    LET want == ExpectedName(NodeAt(repo[f].source, p).c1[1])
                        got == {i \in 1..Len(sites) : sites[i] = [file |-> f, path |-> p]}
                    IN  IF want = None THEN got = {}
                        ELSE /\ Cardinality(got) = 1
                             /\ \A i \in got : data.calls[i].to_function = want

\* recorded: a call on an attribute of a call, under the bare attribute name,
\* with the receiver call nested in it under its own name
C3_Witness ==
    \E i, j \in 1..Len(data.calls) :
        /\ sites[i].file = sites[j].file
        /\ ProperPrefix(sites[i].path, sites[j].path)
        /\ NodeAt(TreeOf(i), sites[i].path).c1[1].kind = "Attribute"
        /\ NodeAt(TreeOf(i), sites[i].path).c1[1].c1[1].kind = "Call"
        /\ data.calls[i].to_function = nm_m
        /\ data.calls[j].to_function = nm_x

(***************************************************************************)
(* What the files of the repository declare, read off their trees.         *)
(***************************************************************************)
Parseable(f) == repo[f].source.kind # "SyntaxError"

\* the nodes of a tree, each with its place
RECURSIVE Located(_, _)
Located(node, prefix) ==
    {<<prefix, node>>} \cup
        UNION {Located(Children(node)[i], Append(prefix, i)) :
                  i \in 1..Len(Children(node))}

\* the function declarations of file f, each with its place
Decls(f) ==
    IF Parseable(f)
    THEN {x \in Located(repo[f].source, << >>) : x[2].kind \in FunctionKinds}
    ELSE {}

\* the places in file f of the function declarations named n
DeclPlaces(f, n) == {x[1] : x \in {y \in Decls(f) : y[2].name = n}}

DeclaredNames(f) == {x[2].name : x \in Decls(f)}

\* the last file in discovery order that declares n
LastDeclaring(n) ==
    LET declaring == {f \in 1..Len(repo) : n \in DeclaredNames(f)}
    IN  CHOOSE f \in declaring : \A g \in declaring : g <= f

\* parse_repository has returned
Parsed == pc # "parse"

(***************************************************************************)
(* C4: after parse_repository, every function name n declared in a         *)
(* successfully parsed file is a key of function_map whose value is        *)
(* "{f}::{n}" for the last file f in discovery order that declares n, and  *)
(* every declaration of a name in a file has its own FunctionNode in        *)
(* data.functions.                                                         *)
(***************************************************************************)
C4_LastDeclarationWins ==
    Parsed =>
        /\ \A f \in 1..Len(repo) :
              returned[f] =>
                  \A n \in DeclaredNames(f) :
                      /\ n \in DOMAIN data.function_map
                      /\ data.function_map[n] =
                             FuncId(repo[LastDeclaring(n)].relative_path, n)
        /\ \A f \in 1..Len(repo) :
              \A n \in DeclaredNames(f) :
                  Cardinality({i \in 1..Len(data.functions) :
                                  /\ data.functions[i].file_path = repo[f].relative_path
                                  /\ data.functions[i].name = n})
                      = Cardinality(DeclPlaces(f, n))

\* two successfully parsed files declare the same name; the second one's id is
\* in function_map and the first one's FunctionNode is in data.functions
C4_Witness ==
    /\ pc = "parsed"
    /\ returned = <<TRUE, TRUE>>
    /\ \E n \in DeclaredNames(1) \cap DeclaredNames(2) :
          /\ data.function_map[n] = FuncId(repo[2].relative_path, n)
          /\ \E i \in 1..Len(data.functions) :
                data.functions[i].id = FuncId(repo[1].relative_path, n)

(***************************************************************************)
(* C5: after parse_repository, the number of File entities of the          *)
(* aggregate is the number of discovered files minus the number of files   *)
(* for which parse_file returned False.                                    *)
(***************************************************************************)
C5_FileCount ==
    Parsed =>
        Len(data.files) + Cardinality({f \in 1..Len(repo) : ~returned[f]}) = Len(repo)

(***************************************************************************)
(* C6: when ingest_calls has run, the CALLS relationships are those from   *)
(* the Function node with id c.from_function to the Function node with id  *)
(* function_map[c.to_function], for the calls c of the aggregate whose     *)
(* to_function is a key of function_map, and no others.                    *)
(***************************************************************************)
NodeOf(nid) == CHOOSE n \in store.nodes : n.nid = nid

EdgesOf(type) == {e \in store.edges : e.type = type}

\* the latest run got through ingest_calls
CallsDone == pc = "exit" /\ exit_code[Len(exit_code)] = 0

C6_CallsResolved ==
    CallsDone =>
        /\ {<<NodeOf(e.src).id, NodeOf(e.dst).id>> : e \in EdgesOf("CALLS")}
             = {<<data.calls[i].from_function,
                  data.function_map[data.calls[i].to_function]>> :
                    i \in {j \in 1..Len(data.calls) :
                             data.calls[j].to_function \in DOMAIN data.function_map}}
        /\ \A e \in EdgesOf("CALLS") :
              NodeOf(e.src).label = "Function" /\ NodeOf(e.dst).label = "Function"

\* a.py defines foo, b.py defines bar which calls foo: the relationship from
\* b.py::bar to a.py::foo is there, and a call to an unknown name made none
C6_Witness ==
    /\ CallsDone
    /\ <<FuncId(b_py, bar), FuncId(a_py, foo)>> \in
           {<<NodeOf(e.src).id, NodeOf(e.dst).id>> : e \in EdgesOf("CALLS")}
    /\ \E i \in 1..Len(data.calls) :
          data.calls[i].to_function \notin DOMAIN data.function_map

(***************************************************************************)
(* C7: when ingest_functions has run, it has raised no error and the store *)
(* holds exactly one Function node for each id of data.functions.          *)
(***************************************************************************)
C7_UpsertById ==
    (pc = "exit" /\ totals[Len(totals)].connected) =>
        /\ exit_code[Len(exit_code)] = 0
        /\ \A i \in 1..Len(data.functions) :
              Cardinality({n \in store.nodes :
                              n.label = "Function" /\ n.id = data.functions[i].id}) = 1

(***************************************************************************)
(* C8: in every state of the aggregate, every ImportRelation's from_file   *)
(* is the relative_path of a FileNode of data.files and every              *)
(* CallRelation's from_function is the id of a FunctionNode of             *)
(* data.functions.                                                         *)
(***************************************************************************)
C8_SourcesExist ==
    /\ \A i \in 1..Len(data.imports) :
          \E f \in 1..Len(data.files) :
              data.files[f].relative_path = data.imports[i].from_file
    /\ \A i \in 1..Len(data.calls) :
          \E f \in 1..Len(data.functions) :
              data.functions[f].id = data.calls[i].from_function

\* imports are recorded and so is a call made in a function nested in a method
C8_Witness ==
    /\ Parsed
    /\ Len(data.imports) > 0
    /\ \E i \in 1..Len(data.calls), f \in 1..Len(repo) :
          data.calls[i].from_function = FuncId(repo[f].relative_path, nm_h)

(***************************************************************************)
(* C9: every import of a file that got past ast.parse is recorded in       *)
(* data.imports, whether or not a File is at its to_file; and when         *)
(* ingest_imports has run, the IMPORTS relationships are those of the      *)
(* recorded imports whose to_file is the relative path of a File of the    *)
(* aggregate, each between the File nodes at from_file and to_file.        *)
(***************************************************************************)
FilePaths == {data.files[i].relative_path : i \in 1..Len(data.files)}

\* the latest run got through ingest_imports
ImportsDone == pc = "ingest_calls" \/ CallsDone

\* the import statements of file f that name a module, each with its place
ImportPlaces(f) ==
    IF Parseable(f)
    THEN {x \in Located(repo[f].source, << >>) :
             \/ x[2].kind = "Import"
             \/ x[2].kind = "ImportFrom" /\ x[2].name # None}
    ELSE {}

C9_UnresolvedImports ==
    /\ \A f \in 1..Len(returned) :
          \A x \in ImportPlaces(f) :
              LET node == x[2]
              IN  \A a \in 1..Len(node.names) :
                      \E i \in 1..Len(data.imports) :
                          /\ data.imports[i].from_file = repo[f].relative_path
                          /\ data.imports[i].import_name =
                                 IF node.kind = "Import" THEN node.names[a]
                                 ELSE node.name \o <<".">> \o node.names[a]
    /\ ImportsDone =>
          /\ {<<NodeOf(e.src).path, NodeOf(e.dst).path, e.name>> : e \in EdgesOf("IMPORTS")}
               = {<<data.imports[i].from_file, data.imports[i].to_file,
                    data.imports[i].import_name>> :
                      i \in {j \in 1..Len(data.imports) :
                               data.imports[j].to_file \in FilePaths}}
          /\ \A e \in EdgesOf("IMPORTS") :
                NodeOf(e.src).label = "File" /\ NodeOf(e.dst).label = "File"
          /\ {n.path : n \in {m \in store.nodes : m.label = "File"}} = FilePaths

\* ingest_imports has run on an aggregate with an import of a file that is not
\* there and an import of one that is
C9_Witness ==
    /\ ImportsDone
    /\ \E i \in 1..Len(data.imports) : data.imports[i].to_file \notin FilePaths
    /\ EdgesOf("IMPORTS") # {}

(***************************************************************************)
(* C10: the runs of the pipeline that reached the store leave it, each at  *)
(* its end, with the same numbers of File, Function and Class nodes and of *)
(* DEFINES, IMPORTS and CALLS relationships.                               *)
(***************************************************************************)
C10_Idempotent ==
    \A j, k \in 1..Len(totals) :
        (totals[j].connected /\ totals[k].connected) =>
            totals[j].counts = totals[k].counts

\* two runs reached the store and the second left nodes and relationships of
\* every kind
C10_Witness ==
    /\ Len(totals) >= 2
    /\ totals[1].connected /\ totals[2].connected
    /\ exit_code[2] = 0
    /\ totals[2].counts.File >= 2
    /\ totals[2].counts.Function >= 2
    /\ totals[2].counts.Class >= 1
    /\ totals[2].counts.DEFINES >= 1
    /\ totals[2].counts.IMPORTS >= 1
    /\ totals[2].counts.CALLS >= 1

(***************************************************************************)
(* C11: a step of a run in which test_connection returns False ends the    *)
(* run at once with exit code 1 and leaves the store as it was: neither    *)
(* clear_database nor create_constraints nor any upsert is executed.       *)
(***************************************************************************)
C11_ConnectivityFailureFatal ==
    [][(/\ pc = "parsed"
        /\ Len(totals') = Len(totals) + 1
        /\ ~totals'[Len(totals')].connected)
          => /\ pc' = "exit"
             /\ store' = store
             /\ exit_code' = Append(exit_code, 1)]_vars

\* a first run filled the store, a second one could not connect: it ended with
\* exit code 1 and the store still holds what the first run wrote
C11_Witness ==
    /\ pc = "exit"
    /\ Len(totals) = 2
    /\ totals[1].connected /\ exit_code[1] = 0
    /\ ~totals[2].connected /\ exit_code[2] = 1
    /\ store.nodes # {} /\ store.edges # {}
    /\ Counts(store) = totals[1].counts

(***************************************************************************)
(* C12: every recorded call has a declaration around it that holds it in   *)
(* its body, and its from_function is the id of the innermost such         *)
(* declaration: a call in the decorator list or in the default-argument    *)
(* expressions of a declaration goes to the scope around the declaration,  *)
(* and is not recorded when the declaration is at module level.            *)
(***************************************************************************)
\* the declarations around place p that hold it in their body
BodyDeclsAround(tree, p) == {k \in DeclsAround(tree, p) : InBodyOf(tree, p, k)}

C12_EnclosingScope ==
    \A i \in 1..Len(data.calls) :
        LET holders == BodyDeclsAround(TreeOf(i), sites[i].path)
            k == CHOOSE h \in holders : \A j \in holders : j <= h
        IN  /\ holders # {}
            /\ data.calls[i].from_function =
                   FuncId(PathOfFile(i), NodeAt(TreeOf(i), SubSeq(sites[i].path, 1, k)).name)

(***************************************************************************)
(* C13: no key of function_map contains a '.'; a recorded call whose       *)
(* target is an attribute of a bare name has a candidate name that is not  *)
(* a key of function_map, whether or not a function named like the         *)
(* attribute is declared; and when ingest_calls has run, the CALLS         *)
(* relationships are those of the other recorded calls whose candidate     *)
(* name is a key.                                                          *)
(***************************************************************************)
HasDot(s) == \E i \in 1..Len(s) : s[i] = DOT

\* the target of the i-th recorded call is an attribute of a bare name
OnBareReceiver(i) ==
    LET target == NodeAt(TreeOf(i), sites[i].path).c1[1]
    IN  target.kind = "Attribute" /\ target.c1[1].kind = "Name"

C13_DottedNeverResolves ==
    /\ \A n \in DOMAIN data.function_map : ~HasDot(n)
    /\ \A i \in 1..Len(data.calls) :
          OnBareReceiver(i) =>
              /\ HasDot(data.calls[i].to_function)
              /\ data.calls[i].to_function \notin DOMAIN data.function_map
    /\ CallsDone =>
          {<<NodeOf(e.src).id, NodeOf(e.dst).id>> : e \in EdgesOf("CALLS")}
            = {<<data.calls[i].from_function,
                 data.function_map[data.calls[i].to_function]>> :
                   i \in {j \in 1..Len(data.calls) :
                            /\ ~OnBareReceiver(j)
                            /\ data.calls[j].to_function \in DOMAIN data.function_map}}

\* ingest_calls has run on an aggregate with a call x.dup() and a declared
\* function dup: no relationship leads from the caller to a function dup, while
\* other calls made theirs
C13_Witness ==
    /\ CallsDone
    /\ EdgesOf("CALLS") # {}
    /\ \E i \in 1..Len(data.calls) :
          /\ OnBareReceiver(i)
          /\ NodeAt(TreeOf(i), sites[i].path).c1[1].name \in DOMAIN data.function_map
          /\ \A e \in EdgesOf("CALLS") :
                ~(/\ NodeOf(e.src).id = data.calls[i].from_function
                  /\ NodeOf(e.dst).name = NodeAt(TreeOf(i), sites[i].path).c1[1].name)

=============================================================================
